---- MODULE Spec2Model ----
(***************************************************************************)
(* PID controller closed-loop simulation (package simulation), the         *)
(* dt-less controller, the electrical plant and the closed loop of package *)
(* main, and the /sendData HTTP handler.                                   *)
(*                                                                         *)
(* float64 values are modelled as IEEE-754 values without rounding: a      *)
(* finite value is an exact fraction n/d in lowest terms, and +Inf, -Inf   *)
(* and NaN are separate values with the IEEE rules for + - * /.  Every     *)
(* input below is a small dyadic number and every divisor (dt, Tau) is 0   *)
(* or a power of two, so each finite intermediate result is a dyadic       *)
(* number of a few bits and float64 computes it without rounding: on these *)
(* inputs the fractions are the float64 values.  Negative zero is not an   *)
(* input; the divisors are inputs, never computed values.  The electrical  *)
(* plant (square roots, math.Pi) is computed in exact arithmetic; float64  *)
(* rounding of those operations is outside the model.                      *)
(***************************************************************************)
EXTENDS Integers, Sequences, FiniteSets, TLC

VARIABLES
    \* one caller of simulation.Simulation
    cfg,        \* the arguments Sp, Tau, K, P, Ki, Kd, dt, N of the call
    pc,         \* "idle", "loop" (at the loop test of line 44), "returned"
    measure,    \* local slice measure
    T,          \* local slice T
    pid,        \* the controller *pid of the call
    un,         \* local un
    k,          \* loop variable k
    ret,        \* the returned pair (T, measure)
    run,        \* 0 before the first call, then 1 or 2
    first,      \* what the first call returned
    calls,      \* history: the Compute calls of the current run
    \* a caller of the two controllers, called side by side
    made,       \* whether the two controllers have been constructed
    spid,       \* a simulation.PID
    mpid,       \* a main.PID
    hist,       \* history: the Compute calls made on spid and mpid
    \* the /sendData requests, each handled by its own goroutine
    hpc,        \* per request: "wait", "loop" (in Simulation, at line 44), "done"
    hdata,      \* per request: the decoded DataReceived
    heap,       \* the PID objects allocated so far, by address
    hptr,       \* per request: the address its Simulation holds in pid
    hmeasure,   \* per request: Simulation's measure
    hT,         \* per request: Simulation's T
    hk,         \* per request: Simulation's k
    hresp,      \* per request: what was written to the ResponseWriter
    touched,    \* history: per address, the requests that read or wrote it
    hdec,       \* history: per request, "none", or how Decode ended: "ok", "err"
    hsim,       \* history: per request, the number of Simulation calls made
    \* a caller of the ElectricalSystem methods
    esys,       \* the ElectricalSystem the methods are called on
    emade,      \* whether esys has been set
    elog,       \* history: the method calls made on esys, with their results
    \* func main of main.go
    mainCfg,    \* QPoc_ref, Pond, the gains given to NewPID, numIterations, dt
    mainPc,     \* "idle", "loop" (at the loop test of line 46), "done"
    QPoc,       \* local slice QPoc
    Qond,       \* local slice Qond
    mainT,      \* local slice T
    mainPid,    \* the controller *pid of main
    mainK,      \* loop variable t
    mainCalls   \* history: the Compute calls of the loop

simVars == <<cfg, pc, measure, T, pid, un, k, ret, run, first, calls>>
pidVars == <<made, spid, mpid, hist>>
httpVars == <<hpc, hdata, heap, hptr, hmeasure, hT, hk, hresp, touched, hdec, hsim>>
elecVars == <<esys, emade, elog>>
mainVars == <<mainCfg, mainPc, QPoc, Qond, mainT, mainPid, mainK, mainCalls>>
vars == <<simVars, pidVars, httpVars, elecVars, mainVars>>

(***************************************************************************)
(* Bounds of the model.                                                    *)
(***************************************************************************)
MaxN == 3          \* largest iteration count N of a simulation run
MaxCalls == 3      \* longest sequence of direct Compute calls
NumReq == 2        \* number of concurrent /sendData requests
MaxReqN == 2       \* largest N in a request body
MaxElecCalls == 2  \* longest sequence of calls on one ElectricalSystem
MaxIter == 3       \* largest numIterations of main (QPoc grows quadratically)

(***************************************************************************)
(* float64                                                                 *)
(***************************************************************************)
Abs(x) == IF x < 0 THEN -x ELSE x

RECURSIVE GCD(_, _)
GCD(a, b) == IF b = 0 THEN a ELSE GCD(b, a % b)

\* the finite value n/d (d > 0), in lowest terms
R(n, d) == LET g == GCD(Abs(n), d)
           IN  [k |-> "fin", n |-> n \div g, d |-> d \div g]

NaN  == [k |-> "nan",  n |-> 0, d |-> 1]
PInf == [k |-> "pinf", n |-> 0, d |-> 1]
NInf == [k |-> "ninf", n |-> 0, d |-> 1]
Zero == R(0, 1)
One  == R(1, 1)

IsFin(x) == x.k = "fin"
\* -1, 0, 1 for a value that is not NaN
Sgn(x) == CASE x.k = "pinf" -> 1
            [] x.k = "ninf" -> -1
            [] OTHER -> IF x.n > 0 THEN 1 ELSE IF x.n < 0 THEN -1 ELSE 0
InfOf(s) == IF s > 0 THEN PInf ELSE NInf

Neg(x) == CASE x.k = "fin"  -> R(-x.n, x.d)
            [] x.k = "pinf" -> NInf
            [] x.k = "ninf" -> PInf
            [] OTHER -> NaN

Add(x, y) ==
    CASE x.k = "nan" \/ y.k = "nan" -> NaN
      [] IsFin(x) /\ IsFin(y) -> R(x.n * y.d + y.n * x.d, x.d * y.d)
      [] IsFin(x) -> y
      [] IsFin(y) -> x
      [] OTHER -> IF x.k = y.k THEN x ELSE NaN

Sub(x, y) == Add(x, Neg(y))

Mul(x, y) ==
    CASE x.k = "nan" \/ y.k = "nan" -> NaN
      [] IsFin(x) /\ IsFin(y) -> R(x.n * y.n, x.d * y.d)
      [] OTHER -> IF Sgn(x) = 0 \/ Sgn(y) = 0 THEN NaN ELSE InfOf(Sgn(x) * Sgn(y))

\* x / y; a zero divisor is +0
Div(x, y) ==
    CASE x.k = "nan" \/ y.k = "nan" -> NaN
      [] IsFin(x) /\ IsFin(y) ->
            IF y.n = 0
            THEN IF x.n = 0 THEN NaN ELSE InfOf(x.n)
            ELSE R(x.n * y.d * Sgn(y), x.d * Abs(y.n))
      [] IsFin(x) -> Zero
      [] IsFin(y) -> InfOf(Sgn(x) * (IF Sgn(y) < 0 THEN -1 ELSE 1))
      [] OTHER -> NaN

\* x < y and x <= y on finite values
Lt(x, y) == IsFin(x) /\ IsFin(y) /\ x.n * y.d < y.n * x.d
Le(x, y) == IsFin(x) /\ IsFin(y) /\ x.n * y.d <= y.n * x.d
IsInt(x) == IsFin(x) /\ x.d = 1

\* int(x) of a finite float64: truncation toward zero
Trunc(x) == IF x.n >= 0 THEN x.n \div x.d ELSE -((-x.n) \div x.d)

Last(s) == s[Len(s)]

(***************************************************************************)
(* package simulation: the PID controller                                  *)
(***************************************************************************)
NewPID(kp, ki, kd) ==
    [Kp |-> kp, Ki |-> ki, Kd |-> kd, integral |-> Zero, previouserror_pid |-> Zero]

\* Compute with the derivative formed after previouserror_pid is overwritten
ComputeLateDerivative(p, setpoint, currentValue, dt) ==
    LET error_pid    == Sub(setpoint, currentValue)
        proportional == Mul(p.Kp, error_pid)
        newIntegral  == Add(p.integral, Mul(error_pid, dt))
        integral     == Mul(p.Ki, newIntegral)
        derivative   == Div(Mul(p.Kd, Sub(error_pid, error_pid)), dt)
    IN  [pid |-> [p EXCEPT !.integral = newIntegral, !.previouserror_pid = error_pid],
         out |-> Add(Add(proportional, integral), derivative)]

\* Compute that skips "pid.previouserror_pid = error_pid" when Kd is 0
ComputeSkipPrevWhenNoKd(p, setpoint, currentValue, dt) ==
    LET error_pid    == Sub(setpoint, currentValue)
        proportional == Mul(p.Kp, error_pid)
        newIntegral  == Add(p.integral, Mul(error_pid, dt))
        integral     == Mul(p.Ki, newIntegral)
        derivative   == Div(Mul(p.Kd, Sub(error_pid, p.previouserror_pid)), dt)
    IN  [pid |-> [p EXCEPT !.integral = newIntegral,
                           !.previouserror_pid = IF p.Kd = Zero THEN @ ELSE error_pid],
         out |-> Add(Add(proportional, integral), derivative)]

\* Compute that keeps the integral term in the field Ki
ComputeClobbersKi(p, setpoint, currentValue, dt) ==
    LET error_pid    == Sub(setpoint, currentValue)
        proportional == Mul(p.Kp, error_pid)
        newIntegral  == Add(p.integral, Mul(error_pid, dt))
        integral     == Mul(p.Ki, newIntegral)
        derivative   == Div(Mul(p.Kd, Sub(error_pid, p.previouserror_pid)), dt)
    IN  [pid |-> [p EXCEPT !.integral = newIntegral, !.previouserror_pid = error_pid,
                           !.Ki = integral],
         out |-> Add(Add(proportional, integral), derivative)]

\* pid.Compute(setpoint, currentValue, dt): the controller after the call and
\* the returned output
Compute(p, setpoint, currentValue, dt) ==
    LET error_pid    == Sub(setpoint, currentValue)
        proportional == Mul(p.Kp, error_pid)
        newIntegral  == Add(p.integral, Mul(error_pid, dt))
        integral     == Mul(p.Ki, newIntegral)
        derivative   == Div(Mul(p.Kd, Sub(error_pid, p.previouserror_pid)), dt)
    IN  [pid |-> [p EXCEPT !.integral = newIntegral, !.previouserror_pid = error_pid],
         out |-> Add(Add(proportional, integral), derivative)]

\* DynamicResponse that drops the "+ yn" term
DynamicResponseNoCarry(u, yn, dt, Tau, K) ==
    Mul(Div(dt, Tau), Sub(Mul(K, u), yn))

\* (dt/Tau)*(K*un-yn) + yn
DynamicResponse(u, yn, dt, Tau, K) ==
    Add(Mul(Div(dt, Tau), Sub(Mul(K, u), yn)), yn)

(***************************************************************************)
(* package simulation: Simulation                                          *)
(***************************************************************************)
Half == R(1, 2)
Two  == R(2, 1)

SpSet  == {One, Two}
TauSet == {Zero, One, Two}
KSet   == {One, Two}
GainSet == {Zero, One}
DtSet  == {R(-1, 1), Zero, Half, One}
NSet   == {R(i, 1) : i \in -1..MaxN} \cup {R(3, 2)}

Configs == [Sp : SpSet, Tau : TauSet, K : KSet, P : GainSet, Ki : GainSet,
            Kd : GainSet, dt : DtSet, N : NSet]

NoRet == [T |-> <<>>, Y |-> <<>>]
NoCfg == [Sp |-> Zero, Tau |-> Zero, K |-> Zero, P |-> Zero, Ki |-> Zero,
          Kd |-> Zero, dt |-> Zero, N |-> Zero]

\* the loop starting at k := 0
FirstKZero == 1 - 1

\* k := 1
FirstK == 1

\* the loop test k < int(N)
LoopCondStrict(kk, NN) == kk < Trunc(NN)

\* k <= int(N)
LoopCond(kk, NN) == kk <= Trunc(NN)

\* the time axis restarted from T[0] at every step
NextTFromStart(t, dt) == Add(t[1], dt)

\* T[len(T)-1] + dt
NextT(t, dt) == Add(Last(t), dt)

\* the entry of Simulation with the controller kept from the call before
\* (only its gains set anew)
SimEnterStalePid(c) ==
    /\ measure' = <<Zero>>
    /\ T' = <<Zero>>
    /\ pid' = [pid EXCEPT !.Kp = c.P, !.Ki = c.Ki, !.Kd = c.Kd]
    /\ un' = Zero
    /\ k' = FirstK
    /\ ret' = NoRet
    /\ calls' = <<>>
    /\ pc' = "loop"

\* lines 37-44: the locals of a call with arguments c, up to the loop init
SimEnter(c) ==
    /\ measure' = <<Zero>>
    /\ T' = <<Zero>>
    /\ pid' = NewPID(c.P, c.Ki, c.Kd)
    /\ un' = Zero
    /\ k' = FirstK
    /\ ret' = NoRet
    /\ calls' = <<>>
    /\ pc' = "loop"

\* a caller calls Simulation with arguments of its choice
SimCall ==
    /\ pc = "idle"
    /\ \E c \in Configs : cfg' = c /\ SimEnter(c)
    /\ run' = 1
    /\ first' = NoRet
    /\ UNCHANGED <<pidVars, httpVars, elecVars, mainVars>>

\* the caller calls Simulation a second time with the same arguments
SimCallAgain ==
    /\ pc = "returned"
    /\ run = 1
    /\ cfg' = cfg
    /\ SimEnter(cfg)
    /\ run' = 2
    /\ first' = ret
    /\ UNCHANGED <<pidVars, httpVars, elecVars, mainVars>>

\* one iteration of the loop, lines 44-49
SimLoop ==
    /\ pc = "loop"
    /\ LoopCond(k, cfg.N)
    /\ LET c   == Compute(pid, cfg.Sp, Last(measure), cfg.dt)
           ynn == DynamicResponse(c.out, Last(measure), cfg.dt, cfg.Tau, cfg.K)
       IN  /\ un' = c.out
           /\ pid' = c.pid
           /\ measure' = Append(measure, ynn)
           /\ T' = Append(T, NextT(T, cfg.dt))
           /\ calls' = Append(calls, [sp |-> cfg.Sp, cv |-> Last(measure),
                                      dt |-> cfg.dt, pre |-> pid,
                                      post |-> c.pid, out |-> c.out])
    /\ k' = k + 1
    /\ UNCHANGED <<cfg, pc, ret, run, first>>
    /\ UNCHANGED <<pidVars, httpVars, elecVars, mainVars>>

\* the loop test fails: return T, measure (line 51)
SimReturn ==
    /\ pc = "loop"
    /\ ~LoopCond(k, cfg.N)
    /\ ret' = [T |-> T, Y |-> measure]
    /\ pc' = "returned"
    /\ UNCHANGED <<cfg, measure, T, pid, un, k, run, first, calls>>
    /\ UNCHANGED <<pidVars, httpVars, elecVars, mainVars>>

SimInit ==
    /\ cfg = NoCfg
    /\ pc = "idle"
    /\ measure = <<>>
    /\ T = <<>>
    /\ pid = NewPID(Zero, Zero, Zero)
    /\ un = Zero
    /\ k = 0
    /\ ret = NoRet
    /\ run = 0
    /\ first = NoRet
    /\ calls = <<>>

(***************************************************************************)
(* package main: the controller without dt (main.go), and a caller that    *)
(* drives it side by side with the simulation controller                   *)
(***************************************************************************)
MainNewPID(kp, ki, kd) ==
    [Kp |-> kp, Ki |-> ki, Kd |-> kd, integral |-> Zero, previouserror_pid |-> Zero]

\* main's Compute with "pid.integral = error_pid" for "+="
MainComputeNoAccumulate(p, setpoint, currentValue) ==
    LET error_pid    == Sub(setpoint, currentValue)
        proportional == Mul(p.Kp, error_pid)
        newIntegral  == error_pid
        integral     == Mul(p.Ki, newIntegral)
        derivative   == Mul(p.Kd, Sub(error_pid, p.previouserror_pid))
    IN  [pid |-> [p EXCEPT !.integral = newIntegral, !.previouserror_pid = error_pid],
         out |-> Add(Add(proportional, integral), derivative)]

\* main's pid.Compute(setpoint, currentValue)
MainCompute(p, setpoint, currentValue) ==
    LET error_pid    == Sub(setpoint, currentValue)
        proportional == Mul(p.Kp, error_pid)
        newIntegral  == Add(p.integral, error_pid)
        integral     == Mul(p.Ki, newIntegral)
        derivative   == Mul(p.Kd, Sub(error_pid, p.previouserror_pid))
    IN  [pid |-> [p EXCEPT !.integral = newIntegral, !.previouserror_pid = error_pid],
         out |-> Add(Add(proportional, integral), derivative)]

CallSpSet == {One, Two}
CallCvSet == {Zero, One}
CallDtSet == {Half, One}

\* NewPID(kp, ki, kd) in both packages, with the same gains
PidNew ==
    /\ ~made
    /\ \E kp \in GainSet, ki \in GainSet, kd \in GainSet :
          /\ spid' = NewPID(kp, ki, kd)
          /\ mpid' = MainNewPID(kp, ki, kd)
    /\ made' = TRUE
    /\ hist' = <<>>
    /\ UNCHANGED <<simVars, httpVars, elecVars, mainVars>>

\* spid.Compute(sp, cv, dt) and mpid.Compute(sp, cv)
PidCompute ==
    /\ made
    /\ Len(hist) < MaxCalls
    /\ \E sp \in CallSpSet, cv \in CallCvSet, dt \in CallDtSet :
          LET s == Compute(spid, sp, cv, dt)
              m == MainCompute(mpid, sp, cv)
          IN  /\ spid' = s.pid
              /\ mpid' = m.pid
              /\ hist' = Append(hist, [sp |-> sp, cv |-> cv, dt |-> dt,
                                       pre |-> spid, post |-> s.pid, out |-> s.out,
                                       mpost |-> m.pid, mout |-> m.out])
    /\ UNCHANGED <<made>>
    /\ UNCHANGED <<simVars, httpVars, elecVars, mainVars>>

PidInit ==
    /\ made = FALSE
    /\ spid = NewPID(Zero, Zero, Zero)
    /\ mpid = MainNewPID(Zero, Zero, Zero)
    /\ hist = <<>>

(***************************************************************************)
(* Simulation as a function of its arguments                               *)
(***************************************************************************)
RECURSIVE SimulationFrom(_, _, _, _, _)
\* the loop of lines 44-49 from controller p, slices m and t and counter kk,
\* then the return of line 51
SimulationFrom(c, p, m, t, kk) ==
    IF LoopCond(kk, c.N)
    THEN LET cc  == Compute(p, c.Sp, Last(m), c.dt)
             ynn == DynamicResponse(cc.out, Last(m), c.dt, c.Tau, c.K)
         IN  SimulationFrom(c, cc.pid, Append(m, ynn), Append(t, NextT(t, c.dt)), kk + 1)
    ELSE [T |-> t, Y |-> m]

Simulation(c) ==
    SimulationFrom(c, NewPID(c.P, c.Ki, c.Kd), <<Zero>>, <<Zero>>, FirstK)

(***************************************************************************)
(* The web server: getDataHandler, one goroutine per request               *)
(***************************************************************************)
Requests == 1..NumReq

ReqConfigs == [Sp : {One}, Tau : {Two}, K : {One}, P : {One}, Ki : GainSet,
               Kd : {One}, dt : {One}, N : {R(i, 1) : i \in 0..MaxReqN}]

NoResp == [status |-> 0, X |-> <<>>, Y |-> <<>>]

\* a controller kept at one package-level address
PidAddrShared(h) == 1

\* &PID{...}: the address of a newly allocated object
PidAddr(h) == Len(h) + 1

\* the store h with object v written at address a (a <= Len(h) + 1)
Store(h, a, v) == IF a = Len(h) + 1 THEN Append(h, v) ELSE [h EXCEPT ![a] = v]

\* the error branch without its return: 400 is written and the handler goes
\* on to call Simulation with the zero-valued data
HandlerBadRequestNoReturn(r) ==
    /\ hpc[r] = "wait"
    /\ hdec' = [hdec EXCEPT ![r] = "err"]
    /\ hresp' = [hresp EXCEPT ![r] = [status |-> 400, X |-> <<>>, Y |-> <<>>]]
    /\ hsim' = [hsim EXCEPT ![r] = @ + 1]
    /\ LET a == PidAddr(heap)
       IN  /\ heap' = Store(heap, a, NewPID(Zero, Zero, Zero))
           /\ touched' = Store(touched, a, {r})
           /\ hptr' = [hptr EXCEPT ![r] = a]
    /\ hmeasure' = [hmeasure EXCEPT ![r] = <<Zero>>]
    /\ hT' = [hT EXCEPT ![r] = <<Zero>>]
    /\ hk' = [hk EXCEPT ![r] = FirstK]
    /\ hpc' = [hpc EXCEPT ![r] = "loop"]
    /\ UNCHANGED hdata
    /\ UNCHANGED <<simVars, pidVars, elecVars, mainVars>>

\* lines 25-31: the body does not decode; answer 400 and return
HandlerBadRequest(r) ==
    /\ hpc[r] = "wait"
    /\ hdec' = [hdec EXCEPT ![r] = "err"]
    /\ hresp' = [hresp EXCEPT ![r] = [status |-> 400, X |-> <<>>, Y |-> <<>>]]
    /\ hpc' = [hpc EXCEPT ![r] = "done"]
    /\ UNCHANGED <<hdata, heap, hptr, hmeasure, hT, hk, touched, hsim>>
    /\ UNCHANGED <<simVars, pidVars, elecVars, mainVars>>

\* lines 25-34: the body decodes to c; Simulation is entered (its lines 37-44)
HandlerStart(r) ==
    /\ hpc[r] = "wait"
    /\ \E c \in ReqConfigs :
          LET a == PidAddr(heap)
          IN  /\ hdata' = [hdata EXCEPT ![r] = c]
              /\ heap' = Store(heap, a, NewPID(c.P, c.Ki, c.Kd))
              /\ touched' = Store(touched, a,
                                  (IF a <= Len(touched) THEN touched[a] ELSE {}) \cup {r})
              /\ hptr' = [hptr EXCEPT ![r] = a]
    /\ hmeasure' = [hmeasure EXCEPT ![r] = <<Zero>>]
    /\ hT' = [hT EXCEPT ![r] = <<Zero>>]
    /\ hk' = [hk EXCEPT ![r] = FirstK]
    /\ hpc' = [hpc EXCEPT ![r] = "loop"]
    /\ hdec' = [hdec EXCEPT ![r] = "ok"]
    /\ hsim' = [hsim EXCEPT ![r] = @ + 1]
    /\ UNCHANGED hresp
    /\ UNCHANGED <<simVars, pidVars, elecVars, mainVars>>

\* one loop iteration of the Simulation call of request r
HandlerLoop(r) ==
    /\ hpc[r] = "loop"
    /\ LoopCond(hk[r], hdata[r].N)
    /\ LET c   == hdata[r]
           a   == hptr[r]
           cc  == Compute(heap[a], c.Sp, Last(hmeasure[r]), c.dt)
           ynn == DynamicResponse(cc.out, Last(hmeasure[r]), c.dt, c.Tau, c.K)
       IN  /\ heap' = [heap EXCEPT ![a] = cc.pid]
           /\ touched' = [touched EXCEPT ![a] = @ \cup {r}]
           /\ hmeasure' = [hmeasure EXCEPT ![r] = Append(@, ynn)]
           /\ hT' = [hT EXCEPT ![r] = Append(@, NextT(@, c.dt))]
    /\ hk' = [hk EXCEPT ![r] = @ + 1]
    /\ UNCHANGED <<hpc, hdata, hptr, hresp, hdec, hsim>>
    /\ UNCHANGED <<simVars, pidVars, elecVars, mainVars>>

\* Simulation returns; lines 44-50 of the handler write {"X": T, "Y": res}
HandlerRespond(r) ==
    /\ hpc[r] = "loop"
    /\ ~LoopCond(hk[r], hdata[r].N)
    /\ hresp' = [hresp EXCEPT ![r] = [status |-> 200, X |-> hT[r], Y |-> hmeasure[r]]]
    /\ hpc' = [hpc EXCEPT ![r] = "done"]
    /\ UNCHANGED <<hdata, heap, hptr, hmeasure, hT, hk, touched, hdec, hsim>>
    /\ UNCHANGED <<simVars, pidVars, elecVars, mainVars>>

HttpInit ==
    /\ hpc = [r \in Requests |-> "wait"]
    /\ hdata = [r \in Requests |-> NoCfg]
    /\ heap = <<>>
    /\ hptr = [r \in Requests |-> 0]
    /\ hmeasure = [r \in Requests |-> <<>>]
    /\ hT = [r \in Requests |-> <<>>]
    /\ hk = [r \in Requests |-> 0]
    /\ hresp = [r \in Requests |-> NoResp]
    /\ touched = <<>>
    /\ hdec = [r \in Requests |-> "none"]
    /\ hsim = [r \in Requests |-> 0]

HttpNext ==
    \E r \in Requests :
        \/ HandlerBadRequest(r)
        \/ HandlerStart(r)
        \/ HandlerLoop(r)
        \/ HandlerRespond(r)

(***************************************************************************)
(* package main: math.Sqrt, math.Pow(x, 2), math.Atan2 and math.Pi         *)
(*                                                                         *)
(* A square root that is not a fraction is kept as the exact root          *)
(* +-sqrt(n/d) (kinds "sqrt" and "nsqrt"); the code only divides such a    *)
(* value (S / UPoc) and squares it (math.Pow(I, 2)), or returns it (Z).    *)
(* math.Pi stands as the dyadic number 25/8, and an angle as the pair      *)
(* atan2 was called with.                                                  *)
(***************************************************************************)
RECURSIVE ISqrtIn(_, _, _)
\* the largest i in lo..hi with i*i <= m (lo*lo <= m)
ISqrtIn(m, lo, hi) ==
    IF lo = hi THEN lo
    ELSE LET mid == (lo + hi + 1) \div 2
         IN  IF mid * mid <= m THEN ISqrtIn(m, mid, hi) ELSE ISqrtIn(m, lo, mid - 1)

ISqrt(m) == ISqrtIn(m, 0, IF m < 46340 THEN m ELSE 46340)
IsSquare(m) == ISqrt(m) * ISqrt(m) = m

IsRoot(x) == x.k \in {"sqrt", "nsqrt"}

\* sgn * sqrt(n/d) for n > 0, d > 0, sgn # 0
Root(sgn, n, d) ==
    LET q == R(n, d)
    IN  IF IsSquare(q.n) /\ IsSquare(q.d)
        THEN R(sgn * ISqrt(q.n), ISqrt(q.d))
        ELSE [k |-> IF sgn > 0 THEN "sqrt" ELSE "nsqrt", n |-> q.n, d |-> q.d]

\* math.Sqrt
Sqrt(x) ==
    CASE x.k = "fin" -> IF x.n < 0 THEN NaN
                        ELSE IF x.n = 0 THEN Zero ELSE Root(1, x.n, x.d)
      [] x.k = "pinf" -> PInf
      [] OTHER -> NaN

\* math.Pow(x, 2)
Pow2(x) == IF IsRoot(x) THEN R(x.n, x.d) ELSE Mul(x, x)

\* x / y where x may be a root
DivRoot(x, y) ==
    IF ~IsRoot(x) THEN Div(x, y)
    ELSE LET sx == IF x.k = "sqrt" THEN 1 ELSE -1
         IN  CASE y.k = "nan" -> NaN
               [] y.k = "fin" ->
                     IF y.n = 0 THEN InfOf(sx)
                     ELSE Root(sx * Sgn(y), x.n * y.d * y.d, x.d * y.n * y.n)
               [] OTHER -> Zero

\* math.Atan2(y, x)
Atan2(y, x) == [k |-> "atan2", y |-> y, x |-> x]

\* math.Pi
Pi == R(25, 8)

(***************************************************************************)
(* package main: ElectricalSystem (simulationSytemElec.go)                 *)
(***************************************************************************)
\* X_L := 2 * math.Pi * sys.f * sys.L
ReactanceL(sys) == Mul(Mul(Mul(Two, Pi), sys.f), sys.L)

\* ComputeImpedance: X_C := 1 / (2 * math.Pi * sys.f * sys.C)
ImpedanceXC(sys) == Div(One, Mul(Mul(Mul(Two, Pi), sys.f), sys.C))

\* ComputeReactivePowerSys: X_C is 0 if sys.C == 0, else 1/(2*Pi*f*C)
ReactiveXCNoGuard(sys) == Div(One, Mul(Mul(Mul(Two, Pi), sys.f), sys.C))

ReactiveXC(sys) ==
    IF sys.C = Zero THEN Zero
    ELSE Div(One, Mul(Mul(Mul(Two, Pi), sys.f), sys.C))

\* sys.ComputeImpedance(): (Z, theta)
ComputeImpedance(sys) ==
    LET X_L == ReactanceL(sys)
        X_C == ImpedanceXC(sys)
    IN  [Z     |-> Sqrt(Add(Pow2(sys.R), Pow2(Sub(X_L, X_C)))),
         theta |-> Atan2(Sub(X_L, X_C), sys.R)]

\* sys.ComputeReactivePowerSys(I)
ComputeReactivePowerSys(sys, I) ==
    LET X_L == ReactanceL(sys)
        X_C == ReactiveXC(sys)
        Q_L == Mul(Pow2(I), X_L)
        Q_C == Mul(Pow2(I), X_C)
    IN  Sub(Q_L, Q_C)

\* sys.ComputeS(Pond, Qond)
ComputeS(sys, Pond, Qcmd) == Sqrt(Add(Pow2(Pond), Pow2(Qcmd)))

\* ComputeQPoc with the apparent power taken from (Pond, Pond)
ComputeQPocWrongPair(sys, Pond, Qcmd) ==
    LET S    == ComputeS(sys, Pond, Pond)
        I    == DivRoot(S, sys.UPoc)
        Qsys == ComputeReactivePowerSys(sys, I)
    IN  Add(Qcmd, Qsys)

\* sys.ComputeQPoc(Pond, Qond)
ComputeQPoc(sys, Pond, Qcmd) ==
    LET S    == ComputeS(sys, Pond, Qcmd)
        I    == DivRoot(S, sys.UPoc)
        Qsys == ComputeReactivePowerSys(sys, I)
    IN  Add(Qcmd, Qsys)

\* the system Simulation builds: C = 0 and R = 0 as in the source; L, f and
\* UPoc are small numbers in place of 2.8e-3, 50 and 6700, chosen so that
\* X_L = UPoc^2 and the values of a few loop steps stay small integers
RefSys == [L |-> One, C |-> Zero, R |-> Zero, f |-> R(4, 1), UPoc |-> R(5, 1)]

\* Simulation(Pond, Qond) of package main
ElecSimulation(Pond, Qcmd) == ComputeQPoc(RefSys, Pond, Qcmd)

ElecSystems == [L : {Zero, One}, C : {Zero, One}, R : {Zero, R(3, 1)},
                f : {Zero, R(4, 1)}, UPoc : {Zero, R(5, 1)}]
ElecPSet == {Zero, R(3, 1)}
ElecQSet == {R(-1, 1), Zero, R(4, 1)}

\* a caller sets up an ElectricalSystem
ElecNew ==
    /\ ~emade
    /\ \E sys \in ElecSystems : esys' = sys
    /\ emade' = TRUE
    /\ elog' = <<>>
    /\ UNCHANGED <<simVars, pidVars, httpVars, mainVars>>

\* esys.ComputeImpedance()
ElecImpedance ==
    /\ emade
    /\ Len(elog) < MaxElecCalls
    /\ elog' = Append(elog, [op |-> "ComputeImpedance", P |-> Zero, Q |-> Zero,
                             Z |-> ComputeImpedance(esys).Z,
                             theta |-> ComputeImpedance(esys).theta,
                             XC |-> ImpedanceXC(esys), out |-> Zero])
    /\ UNCHANGED <<esys, emade>>
    /\ UNCHANGED <<simVars, pidVars, httpVars, mainVars>>

\* esys.ComputeQPoc(P, Q)
ElecQPoc ==
    /\ emade
    /\ Len(elog) < MaxElecCalls
    /\ \E P \in ElecPSet, Q \in ElecQSet :
          elog' = Append(elog, [op |-> "ComputeQPoc", P |-> P, Q |-> Q,
                                Z |-> Zero, theta |-> Zero,
                                XC |-> ReactiveXC(esys),
                                out |-> ComputeQPoc(esys, P, Q)])
    /\ UNCHANGED <<esys, emade>>
    /\ UNCHANGED <<simVars, pidVars, httpVars, mainVars>>

ElecInit ==
    /\ esys = RefSys
    /\ emade = FALSE
    /\ elog = <<>>

ElecNext == ElecNew \/ ElecImpedance \/ ElecQPoc

(***************************************************************************)
(* package main: func main (main.go), the closed loop around the           *)
(* electrical plant.  Its local constants (QPoc_ref, Pond, the gains,      *)
(* numIterations, dt) are drawn from small sets; the values of the source  *)
(* (1e6, 0.01, 0.1, 1000, 0.001) have the same roles, and Kd is 0 as in    *)
(* the source.                                                             *)
(***************************************************************************)
MainConfigs == [QPoc_ref : {Zero, One}, Pond : {Zero, One}, Kp : GainSet,
                Ki : GainSet, Kd : {Zero}, numIterations : 0..MaxIter,
                dt : {Half, One}]

NoMainCfg == [QPoc_ref |-> Zero, Pond |-> Zero, Kp |-> Zero, Ki |-> Zero,
              Kd |-> Zero, numIterations |-> 0, dt |-> Zero]

\* t < numIterations
MainLoopCond(t, numIterations) == t < numIterations

\* lines 37-46: the locals of main, up to the loop init t := 1
MainStart ==
    /\ mainPc = "idle"
    /\ \E c \in MainConfigs :
          /\ mainCfg' = c
          /\ QPoc' = <<ElecSimulation(c.Pond, Zero)>>
          /\ mainPid' = MainNewPID(c.Kp, c.Ki, c.Kd)
    /\ Qond' = <<Zero>>
    /\ mainT' = <<Zero>>
    /\ mainK' = 1
    /\ mainCalls' = <<>>
    /\ mainPc' = "loop"
    /\ UNCHANGED <<simVars, pidVars, httpVars, elecVars>>

\* one iteration of the loop, lines 46-51
MainLoop ==
    /\ mainPc = "loop"
    /\ MainLoopCond(mainK, mainCfg.numIterations)
    /\ LET m == MainCompute(mainPid, mainCfg.QPoc_ref, Last(QPoc))
       IN  /\ Qond' = Append(Qond, m.out)
           /\ QPoc' = Append(QPoc, ElecSimulation(mainCfg.Pond, m.out))
           /\ mainPid' = m.pid
           /\ mainCalls' = Append(mainCalls, [sp |-> mainCfg.QPoc_ref,
                                              cv |-> Last(QPoc), pre |-> mainPid,
                                              post |-> m.pid, out |-> m.out])
    /\ mainT' = Append(mainT, Add(Last(mainT), mainCfg.dt))
    /\ mainK' = mainK + 1
    /\ UNCHANGED <<mainCfg, mainPc>>
    /\ UNCHANGED <<simVars, pidVars, httpVars, elecVars>>

\* the loop test fails: T, Qond and QPoc go to Line (lines 53-54)
MainPlot ==
    /\ mainPc = "loop"
    /\ ~MainLoopCond(mainK, mainCfg.numIterations)
    /\ mainPc' = "done"
    /\ UNCHANGED <<mainCfg, QPoc, Qond, mainT, mainPid, mainK, mainCalls>>
    /\ UNCHANGED <<simVars, pidVars, httpVars, elecVars>>

MainInit ==
    /\ mainCfg = NoMainCfg
    /\ mainPc = "idle"
    /\ QPoc = <<>>
    /\ Qond = <<>>
    /\ mainT = <<>>
    /\ mainPid = MainNewPID(Zero, Zero, Zero)
    /\ mainK = 0
    /\ mainCalls = <<>>

MainNext == MainStart \/ MainLoop \/ MainPlot

(***************************************************************************)
(* Specifications: one caller of Simulation (Spec), the two controllers    *)
(* called side by side (SpecPID), the concurrent requests (SpecHTTP)       *)
(***************************************************************************)
Init == SimInit /\ PidInit /\ HttpInit /\ ElecInit /\ MainInit

PidNext == PidNew \/ PidCompute

SimNext == SimCall \/ SimCallAgain \/ SimLoop \/ SimReturn

Next == SimNext

Spec == Init /\ [][Next]_vars

SpecPID == Init /\ [][PidNext]_vars

SpecHTTP == Init /\ [][HttpNext]_vars

SpecElec == Init /\ [][ElecNext]_vars

SpecMain == Init /\ [][MainNext]_vars

(***************************************************************************)
(* Properties of Simulation (checked under Spec)                           *)
(***************************************************************************)
InCall == pc \in {"loop", "returned"}
Returned == pc = "returned"

\* dt > 0, N an integer >= 0, Tau # 0
ValidConfig(c) == Lt(Zero, c.dt) /\ IsInt(c.N) /\ c.N.n >= 0 /\ c.Tau # Zero

\* C1: for a valid configuration the returned T and Y both have exactly
\* N+1 elements.
C1_LengthNPlusOne ==
    (Returned /\ ValidConfig(cfg)) =>
        (Len(ret.T) = cfg.N.n + 1 /\ Len(ret.Y) = cfg.N.n + 1)

C1_Witness ==
    Returned /\ ValidConfig(cfg) /\ cfg.N.n >= 2 /\ Len(ret.Y) = cfg.N.n + 1

\* a time axis: starts at 0, each element is its predecessor plus dt, and
\* for dt > 0 consecutive elements differ by exactly dt and strictly increase
TimeAxis(t, dt) ==
    /\ Len(t) >= 1
    /\ t[1] = Zero
    /\ \A i \in 2..Len(t) :
          /\ t[i] = Add(t[i-1], dt)
          /\ Lt(Zero, dt) => (Lt(t[i-1], t[i]) /\ Sub(t[i], t[i-1]) = dt)

C3_StepUsesPreviousSample ==
    InCall =>
        /\ Len(calls) = Len(measure) - 1
        /\ \A i \in 1..Len(calls) :
              /\ calls[i].cv = measure[i]
              /\ calls[i].sp = cfg.Sp
              /\ calls[i].dt = cfg.dt
              /\ measure[i+1] =
                    Add(measure[i],
                        Mul(Div(cfg.dt, cfg.Tau),
                            Sub(Mul(cfg.K, calls[i].out), measure[i])))

C3_Witness ==
    /\ Returned /\ ValidConfig(cfg) /\ Len(calls) >= 3
    /\ IsFin(measure[3]) /\ measure[2] # Zero /\ measure[3] # measure[2]
    /\ calls[3].out # calls[2].out

\* C5 as claimed: with dt <= 0 the controller is never invoked and no
\* trajectory is returned.
C5_RejectsNonPositiveDt ==
    (InCall /\ Le(cfg.dt, Zero)) => (calls = <<>> /\ ~Returned)

\* C6 as claimed: with N < 0 or Tau = 0 no loop iteration runs and no
\* trajectory is returned.
C6_RejectsNegativeNOrZeroTau ==
    (InCall /\ (Lt(cfg.N, Zero) \/ cfg.Tau = Zero)) => (calls = <<>> /\ ~Returned)

\* C7: with N = 0 the call returns T = [0] and Y = [0] and Compute is
\* never called.
C7_ZeroStepsOneSample ==
    (InCall /\ cfg.N = Zero) =>
        /\ calls = <<>>
        /\ pid = NewPID(cfg.P, cfg.Ki, cfg.Kd)
        /\ Returned => (ret.T = <<Zero>> /\ ret.Y = <<Zero>>)

C7_Witness == Returned /\ cfg.N = Zero /\ ret = [T |-> <<Zero>>, Y |-> <<Zero>>]

\* C9: a second call with the same arguments returns the same T and Y as
\* the first; the second call starts from a fresh controller.
C9_SecondRunIdentical ==
    /\ (run = 2 /\ Returned) => ret = first
    /\ (run = 2 /\ InCall /\ calls = <<>>) => pid = NewPID(cfg.P, cfg.Ki, cfg.Kd)

C9_Witness ==
    /\ run = 2 /\ Returned /\ ret = first /\ Len(ret.Y) >= 3
    /\ cfg.Ki # Zero /\ pid.integral # Zero /\ IsFin(ret.Y[3]) /\ ret.Y[3] # Zero

(***************************************************************************)
(* Properties of the controllers (checked under SpecPID)                   *)
(***************************************************************************)
ErrorOf(h) == Sub(h.sp, h.cv)

\* C4: Compute returns Kp*error + Ki*integral' + Kd*(error - previous_error)/dt
\* with integral' the stored integral after adding error*dt in this call and
\* previous_error the error of the preceding call (0 on the first call).
C4_ComputeFormula ==
    \A i \in 1..Len(hist) :
        LET h      == hist[i]
            e      == ErrorOf(h)
            prevE  == IF i = 1 THEN Zero ELSE ErrorOf(hist[i-1])
            prevI  == IF i = 1 THEN Zero ELSE hist[i-1].post.integral
        IN  /\ h.post.integral = Add(prevI, Mul(e, h.dt))
            /\ h.out = Add(Add(Mul(h.pre.Kp, e), Mul(h.pre.Ki, h.post.integral)),
                           Div(Mul(h.pre.Kd, Sub(e, prevE)), h.dt))

C4_Witness ==
    /\ Len(hist) >= 2
    /\ spid.Kp # Zero /\ spid.Ki # Zero /\ spid.Kd # Zero
    /\ hist[2].dt = Half
    /\ ErrorOf(hist[2]) # ErrorOf(hist[1])
    /\ ErrorOf(hist[1]) # Zero
    /\ hist[2].out # Zero

AllDtOne == \A i \in 1..Len(hist) : hist[i].dt = One

\* C8: on every sequence of calls, main's Compute(sp, cv) returns the same
\* correction and leaves the same integral and previous error as
\* simulation's Compute(sp, cv, 1).
C8_NoDtIsDtOne ==
    (made /\ AllDtOne) =>
        /\ mpid = spid
        /\ \A i \in 1..Len(hist) :
              hist[i].mout = hist[i].out /\ hist[i].mpost = hist[i].post

C8_Witness ==
    /\ AllDtOne /\ Len(hist) >= 3
    /\ mpid.Kp # Zero /\ mpid.Ki # Zero /\ mpid.Kd # Zero
    /\ hist[3].mout = hist[3].out
    /\ ErrorOf(hist[2]) # ErrorOf(hist[1]) /\ ErrorOf(hist[1]) # Zero
    /\ mpid.integral # mpid.previouserror_pid

(***************************************************************************)
(* Properties of concurrent requests (checked under SpecHTTP)              *)
(***************************************************************************)
\* C10: under every interleaving the (X, Y) answered to a request is the
\* trajectory its configuration produces when run alone, and no controller
\* is read or written by more than one request.
C10_RequestsIndependent ==
    /\ \A r \in Requests :
          (hpc[r] = "done" /\ hresp[r].status = 200) =>
              /\ hresp[r].X = Simulation(hdata[r]).T
              /\ hresp[r].Y = Simulation(hdata[r]).Y
    /\ \A a \in 1..Len(touched) : Cardinality(touched[a]) <= 1
    /\ \A r1, r2 \in Requests :
          (r1 # r2 /\ hptr[r1] # 0) => hptr[r1] # hptr[r2]

\* request 1 entered Simulation first and is still in its loop when
\* request 2, with another configuration, has been answered
C10_Witness ==
    /\ hptr[1] = 1 /\ hptr[2] = 2
    /\ hpc[1] = "loop" /\ hk[1] = 2 /\ LoopCond(hk[1], hdata[1].N)
    /\ hpc[2] = "done" /\ hresp[2].status = 200
    /\ hdata[1].Ki # hdata[2].Ki
    /\ Len(hresp[2].Y) >= 3
    /\ hresp[2].Y = Simulation(hdata[2]).Y
    /\ heap[1] # heap[2]

(***************************************************************************)
(* Zero gains (checked under Spec)                                         *)
(***************************************************************************)
ZeroGains(c) == c.P = Zero /\ c.Ki = Zero /\ c.Kd = Zero

\* C11 as claimed: with Kp = Ki = Kd = 0 every Compute call returns 0, each
\* step is y[k] = y[k-1] - (dt/Tau)*y[k-1], and every sample is 0.
C11_ZeroGainsNoActuation ==
    (InCall /\ ZeroGains(cfg)) =>
        /\ \A i \in 1..Len(calls) :
              /\ calls[i].out = Zero
              /\ measure[i+1] =
                    Sub(measure[i], Mul(Div(cfg.dt, cfg.Tau), measure[i]))
        /\ \A i \in 1..Len(measure) : measure[i] = Zero

\* the same statement for the calls with dt # 0 and Tau # 0
C11_ZeroGainsNonZeroDtTau ==
    (cfg.dt # Zero /\ cfg.Tau # Zero) => C11_ZeroGainsNoActuation

(***************************************************************************)
(* The controller's stored state (checked under SpecPID)                   *)
(***************************************************************************)
FixedDt == \A i \in 1..Len(hist) : hist[i].dt = hist[1].dt

RECURSIVE SumErrors(_)
\* the sum of the errors of the first i calls
SumErrors(i) == IF i = 0 THEN Zero ELSE Add(SumErrors(i - 1), ErrorOf(hist[i]))

C17_GainsImmutable ==
    InCall =>
        /\ pid.Kp = cfg.P /\ pid.Ki = cfg.Ki /\ pid.Kd = cfg.Kd
        /\ \A i \in 1..Len(calls) :
              /\ calls[i].post.Kp = calls[i].pre.Kp
              /\ calls[i].post.Ki = calls[i].pre.Ki
              /\ calls[i].post.Kd = calls[i].pre.Kd
        /\ calls # <<>> => pid = Last(calls).post
        /\ calls = <<>> => pid = NewPID(cfg.P, cfg.Ki, cfg.Kd)

C17_Witness ==
    /\ Returned /\ Len(calls) >= 3 /\ ValidConfig(cfg)
    /\ cfg.Ki # Zero /\ cfg.P # Zero /\ cfg.Kd # Zero
    /\ pid.integral # Zero /\ pid.previouserror_pid # Zero
    /\ pid.integral # calls[1].post.integral
    /\ pid.Ki = cfg.Ki

(***************************************************************************)
(* The decode error of a request (checked under SpecHTTP)                  *)
(***************************************************************************)
\* C18: a request whose body does not decode is answered 400 with no X/Y
\* payload and without a Simulation call; Simulation is called, exactly
\* once, only for a request whose body decoded.
C18_BadBodyNoSimulation ==
    \A r \in Requests :
        /\ hdec[r] = "err" =>
              /\ hsim[r] = 0
              /\ hpc[r] = "done"
              /\ hresp[r] = [status |-> 400, X |-> <<>>, Y |-> <<>>]
        /\ hsim[r] <= 1
        /\ hsim[r] = 1 <=> hdec[r] = "ok"
        /\ hresp[r].status = 200 => (hdec[r] = "ok" /\ hsim[r] = 1)
        /\ (hdec[r] = "ok" /\ hpc[r] = "done") => hresp[r].status = 200

C18_Witness ==
    /\ hdec[1] = "err" /\ hpc[1] = "done" /\ hresp[1].status = 400 /\ hsim[1] = 0
    /\ hdec[2] = "ok" /\ hpc[2] = "done" /\ hresp[2].status = 200 /\ hsim[2] = 1
    /\ Len(hresp[2].X) >= 2

(***************************************************************************)
(* The electrical plant (checked under SpecElec)                           *)
(***************************************************************************)
\* C13 as claimed: ComputeImpedance uses X_C = 0 when C = 0, so for C = 0 it
\* returns Z = sqrt(R^2 + X_L^2), and its X_C is the one
\* ComputeReactivePowerSys uses for the same system.
C13_ImpedanceGuardsZeroC ==
    \A i \in 1..Len(elog) :
        elog[i].op = "ComputeImpedance" =>
            /\ elog[i].XC = ReactiveXC(esys)
            /\ esys.C = Zero =>
                  /\ elog[i].XC = Zero
                  /\ elog[i].Z = Sqrt(Add(Pow2(esys.R), Pow2(ReactanceL(esys))))

C12_MainLoopNPlusOne ==
    mainPc = "done" =>
        /\ Len(mainCalls) = mainCfg.numIterations
        /\ Len(mainT) = mainCfg.numIterations + 1
        /\ Len(Qond) = mainCfg.numIterations + 1
        /\ Len(QPoc) = mainCfg.numIterations + 1

\* what the loop does: numIterations - 1 steps (none for numIterations <= 1)
C12_MainLoopAsCoded ==
    mainPc = "done" =>
        LET steps == IF mainCfg.numIterations >= 1
                     THEN mainCfg.numIterations - 1 ELSE 0
        IN  /\ Len(mainCalls) = steps
            /\ Len(mainT) = steps + 1 /\ Len(Qond) = steps + 1 /\ Len(QPoc) = steps + 1

RECURSIVE CanonicalPid(_)
\* the controller of the explicit-dt contract after its first i calls
\* compute(QPoc_ref, QPoc[j], dt), j = 1..i, on the samples of the run
CanonicalPid(i) ==
    IF i = 0 THEN NewPID(mainCfg.Kp, mainCfg.Ki, mainCfg.Kd)
    ELSE Compute(CanonicalPid(i - 1), mainCfg.QPoc_ref, QPoc[i], mainCfg.dt).pid

\* C16 as claimed: at each step Qond[k] = compute(Q_ref, QPoc[k-1], dt) with
\* the loop's dt, and QPoc[k] = reactive_power_at_poc(P_demand, Qond[k]).
C16_StepUsesLoopDt ==
    mainPc # "idle" =>
        \A i \in 1..(Len(Qond) - 1) :
            /\ Qond[i+1] = Compute(CanonicalPid(i - 1), mainCfg.QPoc_ref,
                                   QPoc[i], mainCfg.dt).out
            /\ QPoc[i+1] = ElecSimulation(mainCfg.Pond, Qond[i+1])

\* the same statement for the runs with dt = 1
C16_StepWithDtOne == mainCfg.dt = One => C16_StepUsesLoopDt

====
